---- MODULE Spec2Model ----
(***************************************************************************)
(* A model of the Skewb puzzle package (package skewb) and of the way its  *)
(* move engine, reverse computer, equivalence checker and mirror checker   *)
(* act on puzzle states, and of the generator of move sequences           *)
(* (algorithms/generate.go) that uses the package.                         *)
(*                                                                         *)
(* A Go string is a sequence of one-character strings, so that             *)
(* strings.Split, strings.Contains, strings.ReplaceAll and fmt.Sprintf are *)
(* modelled by what they do to the characters.                             *)
(***************************************************************************)
EXTENDS Integers, Sequences, FiniteSets, TLC

(***************************************************************************)
(* Bounds of the model.                                                    *)
(***************************************************************************)
\* Spec: the most tokens one behaviour hands to the appliers, over all its
\* move strings (the strings of CallApplyReverse not counted)
MaxTokens == 2
\* EquivSpec, MirrorSpec: the most work of one behaviour, one unit for every
\* call of an applier on a or b and one for every call of a checker
MaxWork == 3
\* RepeatSpec: the most times in a row one rotation is applied
MaxTimes == 4
\* GenSpec: the most moves of a sequence the generator enumerates
GenMoves == 2

(***************************************************************************)
(* Move tokens (type Move and the package variables of that type).         *)
(***************************************************************************)
U == <<"U">>
UPrime == <<"U", "'">>
R == <<"R">>
RPrime == <<"R", "'">>
LittleR == <<"r">>
LittleRPrime == <<"r", "'">>
B == <<"B">>
BPrime == <<"B", "'">>
LittleB == <<"b">>
LittleBPrime == <<"b", "'">>
L == <<"L">>
LPrime == <<"L", "'">>
LittleL == <<"l">>
LittleLPrime == <<"l", "'">>
F == <<"F">>
FPrime == <<"F", "'">>
LittleF == <<"f">>
LittleFPrime == <<"f", "'">>
X == <<"x">>
XPrime == <<"x", "'">>
X2 == <<"x", "2">>
Y == <<"y">>
YPrime == <<"y", "'">>
Y2 == <<"y", "2">>
Z == <<"z">>
ZPrime == <<"z", "'">>
Z2 == <<"z", "2">>

\* the tokens the text of ErrWCAMove lists as valid
ErrWCAMove ==
    <<U, UPrime, R, RPrime, B, BPrime, L, LPrime,
      X, XPrime, X2, Y, YPrime, Y2, Z, ZPrime, Z2>>

ErrColor == "color is not part of Skewb"

clockwise == TRUE
counterClockwise == FALSE
itsY == TRUE
itsntY == FALSE
equal == TRUE
notEqual == FALSE

(***************************************************************************)
(* Errors.  nil is Nil; fmt.Errorf("%v %v", move, ErrWCAMove) is the       *)
(* record that holds the token and the text it is followed by.             *)
(***************************************************************************)
Nil == [kind |-> "nil", token |-> <<>>, color |-> "", valid |-> <<>>]

ErrorfMove(move) ==
    [kind |-> "ErrWCAMove", token |-> move, color |-> "", valid |-> ErrWCAMove]

ErrorfColor(color) ==
    [kind |-> ErrColor, token |-> <<>>, color |-> color, valid |-> <<>>]

(***************************************************************************)
(* The state: 8 corners (their three colors, in order) and 6 centers.      *)
(***************************************************************************)
Corners == {"ufr", "urb", "ulf", "ubl", "drf", "dbr", "dfl", "dlb"}
Centers == {"up", "front", "right", "back", "left", "down"}

New(upColor, frontColor, rightColor, backColor, leftColor, downColor) ==
    [ufr |-> <<upColor, frontColor, rightColor>>,
     urb |-> <<upColor, rightColor, backColor>>,
     ulf |-> <<upColor, leftColor, frontColor>>,
     ubl |-> <<upColor, backColor, leftColor>>,
     drf |-> <<downColor, rightColor, frontColor>>,
     dbr |-> <<downColor, backColor, rightColor>>,
     dfl |-> <<downColor, frontColor, leftColor>>,
     dlb |-> <<downColor, leftColor, backColor>>,
     up |-> upColor,
     front |-> frontColor,
     right |-> rightColor,
     back |-> backColor,
     left |-> leftColor,
     down |-> downColor]

(***************************************************************************)
(* strings.Split(s, " "), strings.Contains, strings.ReplaceAll.            *)
(***************************************************************************)
RECURSIVE Split(_)
Split(s) ==
    IF \A i \in 1..Len(s) : s[i] # " "
    THEN <<s>>
    ELSE LET i == CHOOSE k \in 1..Len(s) :
                    s[k] = " " /\ \A j \in 1..(k - 1) : s[j] # " "
         IN <<SubSeq(s, 1, i - 1)>> \o Split(SubSeq(s, i + 1, Len(s)))

Contains(s, ch) == \E i \in 1..Len(s) : s[i] = ch

ReplaceAllWithEmpty(s, ch) == SelectSeq(s, LAMBDA c : c # ch)

\* a rotate that exchanges two colors of the triple, its mirror image
rotateMirroring(c, isClockwise) ==
    IF isClockwise = clockwise THEN <<c[2], c[1], c[3]>> ELSE <<c[1], c[3], c[2]>>

(***************************************************************************)
(* The move engine.                                                        *)
(***************************************************************************)
rotate(c, isClockwise) ==
    IF isClockwise = clockwise
    THEN <<c[2], c[3], c[1]>>
    ELSE <<c[3], c[1], c[2]>>

\* a rotateThreeCenters that exchanges two centers and leaves the third
rotateThreeCentersSwapping(s, first, second, third, isClockwise) ==
    [s EXCEPT ![first] = s[second], ![second] = s[first]]

rotateThreeCenters(s, first, second, third, isClockwise) ==
    IF isClockwise = clockwise
    THEN [s EXCEPT ![first] = s[third], ![second] = s[first], ![third] = s[second]]
    ELSE [s EXCEPT ![first] = s[second], ![second] = s[third], ![third] = s[first]]

\* a rotateThreeCorners that assigns one after the other: third gets the new
\* first (clockwise), first the new second (counterclockwise)
rotateThreeCornersInTurn(s, first, second, third, isClockwise) ==
    IF isClockwise = clockwise
    THEN [s EXCEPT ![first] = s[third], ![second] = s[first], ![third] = s[first]]
    ELSE [s EXCEPT ![first] = s[second], ![second] = s[third], ![third] = s[second]]

rotateThreeCorners(s, first, second, third, isClockwise) ==
    IF isClockwise = clockwise
    THEN [s EXCEPT ![first] = s[third], ![second] = s[first], ![third] = s[second]]
    ELSE [s EXCEPT ![first] = s[second], ![second] = s[third], ![third] = s[first]]

\* an applyMove that turns the three moved corners the way it turns the pivot
applyMoveOneHandedness(s, rotationCenter, firstCorner, secondCorner, thirdCorner, firstCenter, secondCenter, thirdCenter, isClockwise) ==
    LET s1 == [s EXCEPT ![rotationCenter] = rotate(@, isClockwise),
                        ![firstCorner] = rotate(@, isClockwise),
                        ![secondCorner] = rotate(@, isClockwise),
                        ![thirdCorner] = rotate(@, isClockwise)]
        s2 == rotateThreeCenters(s1, firstCenter, secondCenter, thirdCenter, isClockwise)
    IN rotateThreeCorners(s2, firstCorner, secondCorner, thirdCorner, isClockwise)

applyMove(s, rotationCenter, firstCorner, secondCorner, thirdCorner, firstCenter, secondCenter, thirdCenter, isClockwise) ==
    LET s1 == [s EXCEPT ![rotationCenter] = rotate(@, isClockwise),
                        ![firstCorner] = rotate(@, ~isClockwise),
                        ![secondCorner] = rotate(@, ~isClockwise),
                        ![thirdCorner] = rotate(@, ~isClockwise)]
        s2 == rotateThreeCenters(s1, firstCenter, secondCenter, thirdCenter, isClockwise)
    IN rotateThreeCorners(s2, firstCorner, secondCorner, thirdCorner, isClockwise)

rotateFourCenters(s, first, second, third, fourth, isClockwise) ==
    IF isClockwise = clockwise
    THEN [s EXCEPT ![first] = s[fourth], ![second] = s[first],
                   ![third] = s[second], ![fourth] = s[third]]
    ELSE [s EXCEPT ![first] = s[second], ![second] = s[third],
                   ![third] = s[fourth], ![fourth] = s[first]]

\* a rotateFourCorners that cycles against the direction asked for
rotateFourCornersBackwards(s, first, second, third, fourth, isClockwise) ==
    IF isClockwise = clockwise
    THEN [s EXCEPT ![first] = s[second], ![second] = s[third],
                   ![third] = s[fourth], ![fourth] = s[first]]
    ELSE [s EXCEPT ![first] = s[fourth], ![second] = s[first],
                   ![third] = s[second], ![fourth] = s[third]]

rotateFourCorners(s, first, second, third, fourth, isClockwise) ==
    IF isClockwise = clockwise
    THEN [s EXCEPT ![first] = s[fourth], ![second] = s[first],
                   ![third] = s[second], ![fourth] = s[third]]
    ELSE [s EXCEPT ![first] = s[second], ![second] = s[third],
                   ![third] = s[fourth], ![fourth] = s[first]]

\* a pass of applyRotation that repositions the corners and twists none
applyRotationPassUntwisted(s, firstCorner, secondCorner, thirdCorner, fourthCorner, fifthCorner, sixthCorner, seventhCorner, eighthCorner, firstCenter, secondCenter, thirdCenter, fourthCenter, isClockwise, isY) ==
    LET s1 == rotateFourCenters(s, firstCenter, secondCenter, thirdCenter,
                                fourthCenter, isClockwise)
        s2 == rotateFourCorners(s1, firstCorner, secondCorner, thirdCorner,
                                fourthCorner, isClockwise)
    IN rotateFourCorners(s2, fifthCorner, sixthCorner, seventhCorner,
                         eighthCorner, isClockwise)

\* one pass of applyRotation's body (the code spells it out twice, the
\* second time under isDouble)
applyRotationPass(s, firstCorner, secondCorner, thirdCorner, fourthCorner, fifthCorner, sixthCorner, seventhCorner, eighthCorner, firstCenter, secondCenter, thirdCenter, fourthCenter, isClockwise, isY) ==
    LET s1 == rotateFourCenters(s, firstCenter, secondCenter, thirdCenter,
                                fourthCenter, isClockwise)
        s2 == rotateFourCorners(s1, firstCorner, secondCorner, thirdCorner,
                                fourthCorner, isClockwise)
        s3 == rotateFourCorners(s2, fifthCorner, sixthCorner, seventhCorner,
                                eighthCorner, isClockwise)
    IN IF ~isY
       THEN [s3 EXCEPT ![firstCorner] = rotate(@, counterClockwise),
                       ![secondCorner] = rotate(@, clockwise),
                       ![thirdCorner] = rotate(@, counterClockwise),
                       ![fourthCorner] = rotate(@, clockwise),
                       ![fifthCorner] = rotate(@, clockwise),
                       ![sixthCorner] = rotate(@, counterClockwise),
                       ![seventhCorner] = rotate(@, clockwise),
                       ![eighthCorner] = rotate(@, counterClockwise)]
       ELSE s3

\* an applyRotation without the part under isDouble
applyRotationSinglePass(s, firstCorner, secondCorner, thirdCorner, fourthCorner, fifthCorner, sixthCorner, seventhCorner, eighthCorner, firstCenter, secondCenter, thirdCenter, fourthCenter, isClockwise, isDouble, isY) ==
    applyRotationPass(s, firstCorner, secondCorner, thirdCorner,
                  fourthCorner, fifthCorner, sixthCorner, seventhCorner,
                  eighthCorner, firstCenter, secondCenter, thirdCenter,
                  fourthCenter, isClockwise, isY)

applyRotation(s, firstCorner, secondCorner, thirdCorner, fourthCorner, fifthCorner, sixthCorner, seventhCorner, eighthCorner, firstCenter, secondCenter, thirdCenter, fourthCenter, isClockwise, isDouble, isY) ==
    LET s1 == applyRotationPass(s, firstCorner, secondCorner, thirdCorner,
                  fourthCorner, fifthCorner, sixthCorner, seventhCorner,
                  eighthCorner, firstCenter, secondCenter, thirdCenter,
                  fourthCenter, isClockwise, isY)
    IN IF isDouble
       THEN applyRotationPass(s1, firstCorner, secondCorner, thirdCorner,
                  fourthCorner, fifthCorner, sixthCorner, seventhCorner,
                  eighthCorner, firstCenter, secondCenter, thirdCenter,
                  fourthCenter, isClockwise, isY)
       ELSE s1

\* the three axis rotations, the same lines in both appliers
rotationX(s, move, isClockwise) ==
    applyRotation(s, "ufr", "urb", "dbr", "drf", "ulf", "ubl", "dlb", "dfl",
                  "front", "up", "back", "down", isClockwise, move = X2, itsntY)

rotationY(s, move, isClockwise) ==
    applyRotation(s, "ufr", "ulf", "ubl", "urb", "drf", "dfl", "dlb", "dbr",
                  "front", "left", "back", "right", isClockwise, move = Y2, itsY)

rotationZ(s, move, isClockwise) ==
    applyRotation(s, "ulf", "ufr", "drf", "dfl", "ubl", "urb", "dbr", "dlb",
                  "up", "right", "down", "left", isClockwise, move = Z2, itsntY)

WCAClockwiseMoves == {U, R, B, L, X, X2, Y, Y2, Z, Z2}
WCACounterClockwiseMoves == {UPrime, RPrime, BPrime, LPrime, XPrime, YPrime, ZPrime}

\* the second switch of ApplyWCAMoves: the transformation of one valid token
wcaMove(s, move, isClockwise) ==
    IF move \in {U, UPrime}
    THEN applyMove(s, "ubl", "dlb", "urb", "ulf", "up", "left", "back", isClockwise)
    ELSE IF move \in {R, RPrime}
    THEN applyMove(s, "dbr", "drf", "urb", "dlb", "right", "back", "down", isClockwise)
    ELSE IF move \in {B, BPrime}
    THEN applyMove(s, "dlb", "dbr", "ubl", "dfl", "back", "left", "down", isClockwise)
    ELSE IF move \in {L, LPrime}
    THEN applyMove(s, "dfl", "dlb", "ulf", "drf", "front", "down", "left", isClockwise)
    ELSE IF move \in {X, XPrime, X2}
    THEN rotationX(s, move, isClockwise)
    ELSE IF move \in {Y, YPrime, Y2}
    THEN rotationY(s, move, isClockwise)
    ELSE IF move \in {Z, ZPrime, Z2}
    THEN rotationZ(s, move, isClockwise)
    ELSE s

\* a loop that skips an unknown token and goes on with the tokens after it
RECURSIVE wcaLoopSkipping(_, _)
wcaLoopSkipping(s, tokens) ==
    IF tokens = <<>>
    THEN [s |-> s, err |-> Nil]
    ELSE LET move == Head(tokens)
         IN IF move \in WCAClockwiseMoves
            THEN wcaLoopSkipping(wcaMove(s, move, clockwise), Tail(tokens))
            ELSE IF move \in WCACounterClockwiseMoves
            THEN wcaLoopSkipping(wcaMove(s, move, counterClockwise), Tail(tokens))
            ELSE [s |-> wcaLoopSkipping(s, Tail(tokens)).s, err |-> ErrorfMove(move)]

\* the loop of ApplyWCAMoves over the tokens that are left
RECURSIVE wcaLoop(_, _)
wcaLoop(s, tokens) ==
    IF tokens = <<>>
    THEN [s |-> s, err |-> Nil]
    ELSE LET move == Head(tokens)
         IN IF move \in WCAClockwiseMoves
            THEN wcaLoop(wcaMove(s, move, clockwise), Tail(tokens))
            ELSE IF move \in WCACounterClockwiseMoves
            THEN wcaLoop(wcaMove(s, move, counterClockwise), Tail(tokens))
            ELSE [s |-> s, err |-> ErrorfMove(move)]

ApplyWCAMoves(s, wcaMoves) == wcaLoop(s, Split(wcaMoves))

RubiskewbClockwiseMoves ==
    {R, LittleR, B, LittleB, L, LittleL, F, LittleF, X, X2, Y, Y2, Z, Z2}
RubiskewbCounterClockwiseMoves ==
    {RPrime, LittleRPrime, BPrime, LittleBPrime, LPrime, LittleLPrime,
     FPrime, LittleFPrime, XPrime, YPrime, ZPrime}

\* the second switch of ApplyRubiskewbMoves
\* a second switch that reads the letters as ApplyWCAMoves does
rubiskewbMoveByWCALetters(s, move, isClockwise) == wcaMove(s, move, isClockwise)

rubiskewbMove(s, move, isClockwise) ==
    IF move \in {R, RPrime}
    THEN applyMove(s, "urb", "ufr", "ubl", "dbr", "right", "up", "back", isClockwise)
    ELSE IF move \in {LittleR, LittleRPrime}
    THEN applyMove(s, "dbr", "drf", "urb", "dlb", "right", "back", "down", isClockwise)
    ELSE IF move \in {B, BPrime}
    THEN applyMove(s, "ubl", "dlb", "urb", "ulf", "up", "left", "back", isClockwise)
    ELSE IF move \in {LittleB, LittleBPrime}
    THEN applyMove(s, "dlb", "dbr", "ubl", "dfl", "back", "left", "down", isClockwise)
    ELSE IF move \in {L, LPrime}
    THEN applyMove(s, "ulf", "ubl", "ufr", "dfl", "up", "front", "left", isClockwise)
    ELSE IF move \in {LittleL, LittleLPrime}
    THEN applyMove(s, "dfl", "dlb", "ulf", "drf", "front", "down", "left", isClockwise)
    ELSE IF move \in {F, FPrime}
    THEN applyMove(s, "ufr", "ulf", "urb", "drf", "front", "up", "right", isClockwise)
    ELSE IF move \in {LittleF, LittleFPrime}
    THEN applyMove(s, "drf", "dfl", "ufr", "dbr", "front", "right", "down", isClockwise)
    ELSE IF move \in {X, XPrime, X2}
    THEN rotationX(s, move, isClockwise)
    ELSE IF move \in {Y, YPrime, Y2}
    THEN rotationY(s, move, isClockwise)
    ELSE IF move \in {Z, ZPrime, Z2}
    THEN rotationZ(s, move, isClockwise)
    ELSE s

RECURSIVE rubiskewbLoop(_, _)
rubiskewbLoop(s, tokens) ==
    IF tokens = <<>>
    THEN [s |-> s, err |-> Nil]
    ELSE LET move == Head(tokens)
         IN IF move \in RubiskewbClockwiseMoves
            THEN rubiskewbLoop(rubiskewbMove(s, move, clockwise), Tail(tokens))
            ELSE IF move \in RubiskewbCounterClockwiseMoves
            THEN rubiskewbLoop(rubiskewbMove(s, move, counterClockwise), Tail(tokens))
            ELSE [s |-> s, err |-> ErrorfMove(move)]

ApplyRubiskewbMoves(s, rubiskewbMoves) == rubiskewbLoop(s, Split(rubiskewbMoves))

(***************************************************************************)
(* The reverse computer.                                                   *)
(***************************************************************************)
\* the loop of createReverse: the tokens that are left, and reverse so far
RECURSIVE createReverseLoop(_, _)
createReverseLoop(tokens, reverse) ==
    IF tokens = <<>>
    THEN reverse
    ELSE LET move == Head(tokens)
             undone == IF Contains(move, "'")
                       THEN ReplaceAllWithEmpty(move, "'")
                       ELSE IF ~Contains(move, "2")
                            THEN move \o <<"'">>
                            ELSE move
         IN \* reverse = fmt.Sprintf("%v %v", move, reverse)
            createReverseLoop(Tail(tokens), undone \o <<" ">> \o reverse)

\* a createReverse that appends each undone token instead of prepending it
RECURSIVE createReverseAppendingLoop(_, _)
createReverseAppendingLoop(tokens, reverse) ==
    IF tokens = <<>>
    THEN reverse
    ELSE LET move == Head(tokens)
             undone == IF Contains(move, "'")
                       THEN ReplaceAllWithEmpty(move, "'")
                       ELSE IF ~Contains(move, "2")
                            THEN move \o <<"'">>
                            ELSE move
         IN createReverseAppendingLoop(Tail(tokens), reverse \o <<" ">> \o undone)

createReverseAppending(moves) == createReverseAppendingLoop(Split(moves), <<>>)

createReverse(moves) == createReverseLoop(Split(moves), <<>>)

(***************************************************************************)
(* The equivalence checker.                                                *)
(***************************************************************************)
\* a CenterDown that turns the front center with x instead of x'
CenterDownFrontByX(s, color) ==
    IF s.up = color THEN ApplyWCAMoves(s, X2)
    ELSE IF s.front = color THEN ApplyWCAMoves(s, X)
    ELSE IF s.right = color THEN ApplyWCAMoves(s, Z)
    ELSE IF s.back = color THEN ApplyWCAMoves(s, X)
    ELSE IF s.left = color THEN ApplyWCAMoves(s, ZPrime)
    ELSE IF s.down = color THEN [s |-> s, err |-> Nil]
    ELSE [s |-> s, err |-> ErrorfColor(color)]

\* a CenterDown without the default case
CenterDownNoDefault(s, color) ==
    IF s.up = color THEN ApplyWCAMoves(s, X2)
    ELSE IF s.front = color THEN ApplyWCAMoves(s, XPrime)
    ELSE IF s.right = color THEN ApplyWCAMoves(s, Z)
    ELSE IF s.back = color THEN ApplyWCAMoves(s, X)
    ELSE IF s.left = color THEN ApplyWCAMoves(s, ZPrime)
    ELSE [s |-> s, err |-> Nil]

CenterDown(s, color) ==
    IF s.up = color THEN ApplyWCAMoves(s, X2)
    ELSE IF s.front = color THEN ApplyWCAMoves(s, XPrime)
    ELSE IF s.right = color THEN ApplyWCAMoves(s, Z)
    ELSE IF s.back = color THEN ApplyWCAMoves(s, X)
    ELSE IF s.left = color THEN ApplyWCAMoves(s, ZPrime)
    ELSE IF s.down = color THEN [s |-> s, err |-> Nil]
    ELSE [s |-> s, err |-> ErrorfColor(color)]

\* the method equal (the package variable equal is the boolean above)
skewbEqual(s, other) ==
    IF s.ufr # other.ufr THEN notEqual
    ELSE IF s.urb # other.urb THEN notEqual
    ELSE IF s.ulf # other.ulf THEN notEqual
    ELSE IF s.ubl # other.ubl THEN notEqual
    ELSE IF s.drf # other.drf THEN notEqual
    ELSE IF s.dbr # other.dbr THEN notEqual
    ELSE IF s.dfl # other.dfl THEN notEqual
    ELSE IF s.dlb # other.dlb THEN notEqual
    ELSE IF s.up # other.up THEN notEqual
    ELSE IF s.front # other.front THEN notEqual
    ELSE IF s.right # other.right THEN notEqual
    ELSE IF s.back # other.back THEN notEqual
    ELSE IF s.left # other.left THEN notEqual
    ELSE IF s.down # other.down THEN notEqual
    ELSE equal

\* the number of passes of the loop "for range 3" of Equal
EqualSpins == 3

\* the loop of Equal, with n passes left; the errors of ApplyWCAMoves are dropped
RECURSIVE EqualLoop(_, _, _)
EqualLoop(s, other, n) ==
    IF n = 0
    THEN [other |-> other, ret |-> notEqual]
    ELSE LET turned == ApplyWCAMoves(other, Y).s
         IN IF skewbEqual(s, turned)
            THEN [other |-> turned, ret |-> equal]
            ELSE EqualLoop(s, turned, n - 1)

\* an Equal whose loop makes two passes
EqualTwoSpins(s, other) ==
    LET down == CenterDown(other, s.down).s
    IN IF skewbEqual(s, down)
       THEN [other |-> down, ret |-> equal]
       ELSE EqualLoop(s, down, 2)

\* an Equal whose loop makes four passes
EqualFourSpins(s, other) ==
    LET down == CenterDown(other, s.down).s
    IN IF skewbEqual(s, down)
       THEN [other |-> down, ret |-> equal]
       ELSE EqualLoop(s, down, 4)

\* an Equal whose loop makes one pass
EqualOneSpin(s, other) ==
    LET down == CenterDown(other, s.down).s
    IN IF skewbEqual(s, down)
       THEN [other |-> down, ret |-> equal]
       ELSE EqualLoop(s, down, 1)

\* Equal returns a bool only: the error of CenterDown is dropped
Equal(s, other) ==
    LET down == CenterDown(other, s.down).s
    IN IF skewbEqual(s, down)
       THEN [other |-> down, ret |-> equal]
       ELSE EqualLoop(s, down, EqualSpins)

\* an ExactEqual that calls Equal
ExactEqualByEqual(s, other) == Equal(s, other)

ExactEqual(s, other) == [other |-> other, ret |-> skewbEqual(s, other)]

(***************************************************************************)
(* The mirror checker: FullMirror.                                         *)
(***************************************************************************)
getCornerRelativeColors(colors, upColor, frontColor, rightColor, backColor, leftColor, downColor) ==
    [i \in 1..3 |->
        IF colors[i] = upColor THEN 0
        ELSE IF colors[i] = frontColor THEN 1
        ELSE IF colors[i] = rightColor THEN 2
        ELSE IF colors[i] = backColor THEN 3
        ELSE IF colors[i] = leftColor THEN 4
        ELSE IF colors[i] = downColor THEN 5
        ELSE 0]

\* the table [6][5]int, row by row (rows up, front, right, back, left, down)
getRelativeColors(s) ==
    LET rel(colors) == getCornerRelativeColors(colors, s.up, s.front, s.right,
                                               s.back, s.left, s.down)
        ufr == rel(s.ufr)
        urb == rel(s.urb)
        ulf == rel(s.ulf)
        ubl == rel(s.ubl)
        drf == rel(s.drf)
        dbr == rel(s.dbr)
        dfl == rel(s.dfl)
        dlb == rel(s.dlb)
    IN <<<<0, ufr[1], urb[1], ulf[1], ubl[1]>>,
         <<1, ufr[2], ulf[3], drf[3], dfl[2]>>,
         <<2, ufr[3], urb[2], drf[2], dbr[3]>>,
         <<3, urb[3], ubl[2], dbr[2], dlb[3]>>,
         <<4, ulf[2], ubl[3], dfl[3], dlb[2]>>,
         <<5, drf[1], dbr[1], dfl[1], dlb[1]>>>>

\* a fullMirror that compares the colors themselves
fullMirrorByColors(s, other) == skewbEqual(s, other)

fullMirror(s, other) ==
    IF getRelativeColors(s) = getRelativeColors(other) THEN equal ELSE notEqual

\* a list of rotation strings whose last entry repeats an earlier one
fullMirrorRotationsRepeating ==
    <<X, XPrime, X2, Y, YPrime, Y2, Z, ZPrime, Z2,
      X \o <<" ">> \o Y, X \o <<" ">> \o YPrime, X \o <<" ">> \o Y2,
      X \o <<" ">> \o Z, X \o <<" ">> \o ZPrime, X \o <<" ">> \o Z2,
      XPrime \o <<" ">> \o Y, XPrime \o <<" ">> \o YPrime,
      XPrime \o <<" ">> \o Z, XPrime \o <<" ">> \o ZPrime,
      X2 \o <<" ">> \o Y, X2 \o <<" ">> \o YPrime,
      X2 \o <<" ">> \o Z, X2 \o <<" ">> \o Z>>

\* the rotation strings FullMirror tries, in its order
fullMirrorRotations ==
    <<X, XPrime, X2, Y, YPrime, Y2, Z, ZPrime, Z2,
      X \o <<" ">> \o Y, X \o <<" ">> \o YPrime, X \o <<" ">> \o Y2,
      X \o <<" ">> \o Z, X \o <<" ">> \o ZPrime, X \o <<" ">> \o Z2,
      XPrime \o <<" ">> \o Y, XPrime \o <<" ">> \o YPrime,
      XPrime \o <<" ">> \o Z, XPrime \o <<" ">> \o ZPrime,
      X2 \o <<" ">> \o Y, X2 \o <<" ">> \o YPrime,
      X2 \o <<" ">> \o Z, X2 \o <<" ">> \o ZPrime>>

\* what a mirror checker found on the way: ret is all the caller gets; the
\* errors its calls of CenterDown and ApplyWCAMoves return are assigned to
\* nothing, dropped is the first of them (Nil if none), droppedAt the trial it
\* was returned in (0 before the trials) and trials the number of rotations
\* tried
MirrorResult(s, other, ret) ==
    [s |-> s, other |-> other, ret |-> ret, dropped |-> Nil, droppedAt |-> 0,
     trials |-> 0, panic |-> FALSE]

\* one more trial in front of the trials of rest; first is the first error of
\* that trial
TrialBefore(rest, first) ==
    [rest EXCEPT !.trials = @ + 1,
                 !.dropped = IF first # Nil THEN first ELSE @,
                 !.droppedAt = IF first # Nil THEN 1
                               ELSE IF @ = 0 THEN 0 ELSE @ + 1]

\* the first error of two calls in a row
FirstError(first, second) == IF first # Nil THEN first ELSE second

\* one more trial after the trials of done; first is the first error of that
\* trial
TrialAfter(done, first) ==
    [done EXCEPT !.trials = @ + 1,
                 !.dropped = IF @ # Nil THEN @ ELSE first,
                 !.droppedAt = IF done.dropped = Nil /\ first # Nil
                               THEN done.trials + 1 ELSE @]

\* the end of a pass of the loop of FullMirror: turn is what
\* other.ApplyWCAMoves(rotation) gave and undo what other.ApplyWCAMoves(reverse)
\* gave; both errors are dropped
fullMirrorUndone(s, done, turn, undo) ==
    [TrialAfter(done, FirstError(turn.err, undo.err)) EXCEPT !.other = undo.s, !.ret = fullMirror(s, turn.s)]

\* (turn and undo are handed on as the values the two calls returned)
fullMirrorTurned(s, done, turn, rotation) ==
    CHOOSE found \in {fullMirrorUndone(s, done, turn, undo) : undo \in {ApplyWCAMoves(turn.s, createReverse(rotation))}} : TRUE

\* one pass of the loop of FullMirror, after the passes done tells of; there
\* is no pass after the one that returned equal
fullMirrorPass(s, done, rotation) ==
    IF done.ret = equal
    THEN done
    ELSE CHOOSE found \in {fullMirrorTurned(s, done, turn, rotation) : turn \in {ApplyWCAMoves(done.other, rotation)}} : TRUE

\* the passes of the loop of FullMirror for rotations[from] to rotations[to]:
\* the first half of them, and the second half on what the first half leaves
RECURSIVE fullMirrorLoop(_, _, _, _, _)
fullMirrorLoop(s, rotations, done, from, to) ==
    IF from > to
    THEN done
    ELSE IF from = to
    THEN fullMirrorPass(s, done, rotations[from])
    ELSE CHOOSE found \in {fullMirrorLoop(s, rotations, half, ((from + to) \div 2) + 1, to) : half \in {fullMirrorLoop(s, rotations, done, from, (from + to) \div 2)}} : TRUE

\* a FullMirror whose loop leaves the rotation that matched applied
fullMirrorUndoneKeeping(s, done, turn, undo) ==
    IF fullMirror(s, turn.s)
    THEN [TrialAfter(done, turn.err) EXCEPT !.other = turn.s, !.ret = equal]
    ELSE [TrialAfter(done, FirstError(turn.err, undo.err)) EXCEPT !.other = undo.s]

fullMirrorTurnedKeeping(s, done, turn, rotation) ==
    fullMirrorUndoneKeeping(s, done, turn, ApplyWCAMoves(turn.s, createReverse(rotation)))

fullMirrorPassKeeping(s, done, rotation) ==
    IF done.ret = equal
    THEN done
    ELSE fullMirrorTurnedKeeping(s, done, ApplyWCAMoves(done.other, rotation), rotation)

RECURSIVE fullMirrorLoopKeeping(_, _, _, _, _)
fullMirrorLoopKeeping(s, rotations, done, from, to) ==
    IF from > to
    THEN done
    ELSE IF from = to
    THEN fullMirrorPassKeeping(s, done, rotations[from])
    ELSE CHOOSE found \in {fullMirrorLoopKeeping(s, rotations, half, ((from + to) \div 2) + 1, to) : half \in {fullMirrorLoopKeeping(s, rotations, done, from, (from + to) \div 2)}} : TRUE

FullMirrorKeepsRotation(s, other) ==
    IF fullMirror(s, other)
    THEN MirrorResult(s, other, equal)
    ELSE fullMirrorLoopKeeping(s, fullMirrorRotations, MirrorResult(s, other, notEqual), 1, Len(fullMirrorRotations))

\* a FullMirror that tries the first rotation of its list only
FullMirrorFirstRotation(s, other) ==
    IF fullMirror(s, other)
    THEN MirrorResult(s, other, equal)
    ELSE fullMirrorLoop(s, fullMirrorRotations, MirrorResult(s, other, notEqual), 1, 1)

FullMirror(s, other) ==
    IF fullMirror(s, other)
    THEN MirrorResult(s, other, equal)
    ELSE fullMirrorLoop(s, fullMirrorRotations, MirrorResult(s, other, notEqual), 1, Len(fullMirrorRotations))

(***************************************************************************)
(* The one-layer mirror checker: OneLayerMirror, oneLayerMirror,           *)
(* getLayerColor, index.                                                   *)
(***************************************************************************)
layerCornerColor == 0
firstCornerColor == 1
secondCornerColor == 2
otherCornerColor == -1

\* the position of element in array, counted from 0, or -1
index(array, element) ==
    IF array[1] = element THEN 0
    ELSE IF array[2] = element THEN 1
    ELSE IF array[3] = element THEN 2
    ELSE -1

\* the corners in the order oneLayerMirror looks at them
layerCornerOrder == <<"ufr", "urb", "ulf", "ubl", "drf", "dbr", "dfl", "dlb">>

\* the rows a [4][3]int has
LayerRows == 4

\* the first switch of getLayerColor: the row of the first corner
firstLayerRow(head, layerColor) ==
    IF head[1] = layerColor
    THEN <<layerCornerColor, firstCornerColor, secondCornerColor>>
    ELSE IF head[2] = layerColor
    THEN <<firstCornerColor, layerCornerColor, secondCornerColor>>
    ELSE IF head[3] = layerColor
    THEN <<firstCornerColor, secondCornerColor, layerCornerColor>>
    ELSE <<0, 0, 0>>

\* the switch in the loop of getLayerColor: a color of a later corner, by the
\* place it has on the first corner
laterLayerCell(head, row0, color) ==
    IF head[1] = color THEN row0[1]
    ELSE IF head[2] = color THEN row0[2]
    ELSE IF head[3] = color THEN row0[3]
    ELSE otherCornerColor

\* the table with its first row row0; the rows past the corners stay zero
layerTable(layerCorners, row0) ==
    [i \in 1..LayerRows |->
        IF i = 1 THEN row0
        ELSE IF i <= Len(layerCorners)
        THEN [j \in 1..3 |-> laterLayerCell(layerCorners[1], row0,
                                            layerCorners[i][j])]
        ELSE <<0, 0, 0>>]

\* getLayerColor: the table [4][3]int, or the run-time panic of an index out
\* of range: layerCorners[0] of an empty slice, layerColors[i+1] past the
\* last row
getLayerColor(layerCorners, layerColor) ==
    IF Len(layerCorners) = 0 \/ Len(layerCorners) > LayerRows
    THEN [panic |-> TRUE, colors |-> <<>>]
    ELSE [panic |-> FALSE,
          colors |-> layerTable(layerCorners,
                                firstLayerRow(layerCorners[1], layerColor))]

\* the places of the corners of s that hold layerColor
layerPlaces(s, layerColor) ==
    SelectSeq(layerCornerOrder, LAMBDA c : index(s[c], layerColor) # -1)

\* the corners of s at the places
cornersAt(s, places) == [i \in 1..Len(places) |-> s[places[i]]]

\* the end of oneLayerMirror: the two tables compared
sameLayerColors(sLayerColors, otherLayerColors) ==
    IF sLayerColors.panic \/ otherLayerColors.panic
    THEN [panic |-> TRUE, ret |-> notEqual]
    ELSE [panic |-> FALSE,
          ret |-> IF sLayerColors.colors = otherLayerColors.colors
                  THEN equal ELSE notEqual]

\* the corners collected at places
layersAt(s, other, places, layerColor) ==
    sameLayerColors(getLayerColor(cornersAt(s, places), layerColor),
                    getLayerColor(cornersAt(other, places), layerColor))

\* oneLayerMirror: the corners of s that hold layerColor and the corners of
\* other at the same places, compared by their tables
oneLayerMirror(s, other, layerColor) ==
    layersAt(s, other, layerPlaces(s, layerColor), layerColor)

\* the rotation strings OneLayerMirror tries, in its order
oneLayerMirrorRotations == <<Y, YPrime, Y2>>

\* the loop of OneLayerMirror over the rotations that are left; the errors of
\* ApplyWCAMoves are dropped
RECURSIVE oneLayerMirrorLoop(_, _, _, _)

\* one pass: turn is other.ApplyWCAMoves(rotation), check the comparison
\* after it, undo the call with createReverse(rotation) (not made after a
\* panic)
oneLayerMirrorPass(s, turn, check, undo, layerColor, rotations) ==
    IF check.panic
    THEN TrialBefore([MirrorResult(s, turn.s, notEqual) EXCEPT !.panic = TRUE],
                     turn.err)
    ELSE IF check.ret
    THEN TrialBefore(MirrorResult(s, undo.s, equal),
                     FirstError(turn.err, undo.err))
    ELSE TrialBefore(oneLayerMirrorLoop(s, undo.s, layerColor, Tail(rotations)),
                     FirstError(turn.err, undo.err))

oneLayerMirrorTurned(s, turn, layerColor, rotations) ==
    oneLayerMirrorPass(s, turn, oneLayerMirror(s, turn.s, layerColor),
                       ApplyWCAMoves(turn.s, createReverse(Head(rotations))),
                       layerColor, rotations)

oneLayerMirrorLoop(s, other, layerColor, rotations) ==
    IF rotations = <<>>
    THEN MirrorResult(s, other, notEqual)
    ELSE oneLayerMirrorTurned(s, ApplyWCAMoves(other, Head(rotations)),
                              layerColor, rotations)

\* the first error of the two calls of CenterDown goes with what was found
withErrorBefore(found, before) ==
    IF before # Nil
    THEN [found EXCEPT !.dropped = before, !.droppedAt = 0]
    ELSE found

\* a OneLayerMirror that tries no rotation
oneLayerMirrorCheckedNoSpin(sDown, otherDown, check, layerColor) ==
    withErrorBefore([MirrorResult(sDown.s, otherDown.s, check.ret)
                        EXCEPT !.panic = check.panic],
                    FirstError(sDown.err, otherDown.err))

oneLayerMirrorDownNoSpin(sDown, otherDown, layerColor) ==
    oneLayerMirrorCheckedNoSpin(sDown, otherDown,
        oneLayerMirror(sDown.s, otherDown.s, layerColor), layerColor)

oneLayerMirrorFromNoSpin(sDown, other, layerColor) ==
    oneLayerMirrorDownNoSpin(sDown, CenterDown(other, sDown.s.down), layerColor)

OneLayerMirrorNoSpin(s, other, layerColor) ==
    oneLayerMirrorFromNoSpin(CenterDown(s, layerColor), other, layerColor)

\* OneLayerMirror after the first comparison check
oneLayerMirrorChecked(sDown, otherDown, check, layerColor) ==
    withErrorBefore(
        IF check.panic
        THEN [MirrorResult(sDown.s, otherDown.s, notEqual) EXCEPT !.panic = TRUE]
        ELSE IF check.ret
        THEN MirrorResult(sDown.s, otherDown.s, equal)
        ELSE oneLayerMirrorLoop(sDown.s, otherDown.s, layerColor,
                                oneLayerMirrorRotations),
        FirstError(sDown.err, otherDown.err))

\* OneLayerMirror after other.CenterDown(s.down.color)
oneLayerMirrorDown(sDown, otherDown, layerColor) ==
    oneLayerMirrorChecked(sDown, otherDown,
        oneLayerMirror(sDown.s, otherDown.s, layerColor), layerColor)

\* OneLayerMirror after s.CenterDown(layerColor)
oneLayerMirrorFrom(sDown, other, layerColor) ==
    oneLayerMirrorDown(sDown, CenterDown(other, sDown.s.down), layerColor)

\* OneLayerMirror: s and other are repositioned by CenterDown, whose errors
\* are dropped
OneLayerMirror(s, other, layerColor) ==
    oneLayerMirrorFrom(CenterDown(s, layerColor), other, layerColor)

(***************************************************************************)
(* The callers' inputs.                                                    *)
(***************************************************************************)
Standard == <<"w", "g", "r", "b", "o", "y">>
\* the same geometry with w and y swapped everywhere
Relabelled == <<"y", "g", "r", "b", "o", "w">>
\* the same colors, every one on another face
Permuted == <<"o", "w", "y", "g", "b", "r">>
\* a palette without the color y
Foreign == <<"w", "g", "r", "b", "o", "p">>
\* the constructor does not check that the colors differ
TwoTone == <<"w", "g", "r", "b", "o", "w">>

NewFrom(p) == New(p[1], p[2], p[3], p[4], p[5], p[6])

Colors == {"w", "g", "r", "b", "o", "y", "p"}

WCAVocabulary == WCAClockwiseMoves \cup WCACounterClockwiseMoves
RubiskewbVocabulary == RubiskewbClockwiseMoves \cup RubiskewbCounterClockwiseMoves

\* tokens a caller may hand to ApplyWCAMoves: its vocabulary, an unknown
\* letter, the empty token (two spaces in a row, or the empty string) and a
\* token of the other notation
WCAInputTokens == WCAVocabulary \cup {<<"Q">>, <<>>, F}
RubiskewbInputTokens == RubiskewbVocabulary \cup {<<"Q">>, <<>>, U}

\* strings.Join(tokens, " ")
RECURSIVE Join(_)
Join(tokens) ==
    IF tokens = <<>> THEN <<>>
    ELSE IF Len(tokens) = 1 THEN tokens[1]
    ELSE tokens[1] \o <<" ">> \o Join(Tail(tokens))

\* the strings of 1..n tokens of V, one space between two tokens
MoveStrings(V, n) == {Join(t) : t \in UNION {[1..k -> V] : k \in 1..n}}

(***************************************************************************)
(* The generator of algorithms/generate.go: its package variables and its  *)
(* two enumerations.                                                       *)
(***************************************************************************)
\* the initial values of the package variables allPreMoves and allSolveMoves
initialPreMoves == << <<>> >>
initialSolveMoves == [n \in 0..9 |-> IF n = 0 THEN << <<>> >> ELSE <<>>]

preMoves == <<X, XPrime, X2, Y, YPrime, Y2, Z, ZPrime, Z2>>
solveMoves == <<F, FPrime, LittleF, LittleFPrime, R, RPrime, LittleR, LittleRPrime, LittleB, LittleBPrime>>

\* the last i of the loop of main over the move counts
MainIterations == 8

\* the puzzle every comparison of the generator starts from
newSkewb == New("#FFFFFFFF", "#00FF00FF", "#FF0000FF", "#0000FFFF", "#D67200FF", "#FBFF00FF")

\* the cases of the switch of lastMoveIsDifferent
sameTurnCases ==
    {{U, UPrime}, {R, RPrime}, {LittleR, LittleRPrime}, {B, BPrime},
     {LittleB, LittleBPrime}, {L, LPrime}, {LittleL, LittleLPrime},
     {F, FPrime}, {LittleF, LittleFPrime},
     {X, XPrime, X2}, {Y, YPrime, Y2}, {Z, ZPrime, Z2}}

lastToken(move1) ==
    IF Contains(move1, " ") THEN Split(move1)[Len(Split(move1))] ELSE move1

lastMoveIsDifferent(move1, move2) ==
    ~\E case \in sameTurnCases : lastToken(move1) \in case /\ move2 \in case

\* the first if of the loop body of both iterators: move, or previousMoves
\* with move appended
nextMove(previousMoves, move, currentIteration) ==
    IF /\ previousMoves # <<>>
       /\ Len(Split(previousMoves)) = (IF currentIteration = 1 THEN currentIteration ELSE currentIteration - 1)
       /\ lastMoveIsDifferent(previousMoves, move)
    THEN previousMoves \o <<" ">> \o move
    ELSE move

\* the function iteratorPreMoves hands to slices.ContainsFunc
preMoveIsExactEqual(move, newMove) ==
    ExactEqual(ApplyRubiskewbMoves(newSkewb, move).s, ApplyRubiskewbMoves(newSkewb, newMove).s).ret

\* the function iteratorSolveMoves hands to slices.ContainsFunc
solveMoveIsEqual(move, newMove) ==
    Equal(ApplyRubiskewbMoves(newSkewb, move).s, ApplyRubiskewbMoves(newSkewb, newMove).s).ret

\* the else branch of iteratorPreMoves: move is appended unless a stored
\* sequence gives an ExactEqual state
appendPreMove(all, move, maxIteration) ==
    IF /\ Len(Split(move)) = maxIteration
       /\ ~\E n \in 1..Len(all) : preMoveIsExactEqual(move, all[n])
    THEN Append(all, move)
    ELSE all

\* the move the n-th of the nested calls of iteratorPreMoves works on, when
\* the loop of the m-th call is at preMoves[loops[m]]
RECURSIVE preMoveAt(_, _)
preMoveAt(loops, n) ==
    nextMove(IF n = 1 THEN <<>> ELSE preMoveAt(loops, n - 1), preMoves[loops[n]], n)

\* the loops of the nested calls one step on: the innermost loop moves on,
\* and a loop that has ended returns to the call above it; <<>> when the
\* outermost loop has ended
RECURSIVE nextLoops(_)
nextLoops(loops) ==
    IF loops[Len(loops)] < Len(preMoves)
    THEN [loops EXCEPT ![Len(loops)] = @ + 1]
    ELSE IF Len(loops) = 1
    THEN <<>>
    ELSE IF nextLoops(SubSeq(loops, 1, Len(loops) - 1)) = <<>>
    THEN <<>>
    ELSE Append(nextLoops(SubSeq(loops, 1, Len(loops) - 1)), 1)

\* the loop of iteratorSolveMoves over i, every pass the same search of
\* allPreMoves
isIn(pre, move, moveNumber) ==
    \E i \in 0..moveNumber : \E n \in 1..Len(pre) : solveMoveIsEqual(move, pre[n])

\* the else branch of iteratorSolveMoves; main calls it with currentIteration
\* equal to maxIteration only
appendSolveMove(all, pre, move, maxIteration) ==
    IF Len(Split(move)) = maxIteration /\ ~isIn(pre, move, Len(Split(move)))
    THEN [all EXCEPT ![Len(Split(move))] = Append(@, move)]
    ELSE all

(***************************************************************************)
(* The state of the model: the receiver a and the other puzzle b, and what *)
(* the last call was, was given and returned.                              *)
(***************************************************************************)
VARIABLES
    a,      \* the puzzle the calls are made on
    b,      \* the puzzle handed to the checkers as other
    a0,     \* a when the last call was entered (before m, after a call with
            \* Reverse(m)); a itself while the caller prepares the pair
    b0,     \* b when the last call was entered; b itself while the caller
            \* prepares the pair
    last,   \* the last call: its name, arguments, result and error
    used,   \* the work done so far
    allPreMoves,    \* the package variable of generate.go
    allSolveMoves,  \* the package variable of generate.go
    pc      \* where main of generate.go is

vars == <<a, b, a0, b0, last, used, allPreMoves, allSolveMoves, pc>>

\* main of generate.go before its first call
mainStart == [at |-> "iteratorPreMoves", i |-> 1, loops |-> <<1>>, solveMove |-> 1, move |-> 1]

\* the generator does not run
GeneratorIdle == UNCHANGED <<allPreMoves, allSolveMoves, pc>>

NoCall ==
    [op |-> "New", str |-> <<>>, isReverse |-> FALSE, m |-> <<>>,
     color |-> "", ret |-> FALSE, err |-> Nil,
     dropped |-> Nil, droppedAt |-> 0, trials |-> 0, panic |-> FALSE,
     times |-> 0]

\* a := New(...), b := New(...) with the palettes pa and pb
Constructed(pa, pb) ==
    /\ a = NewFrom(pa)
    /\ b = NewFrom(pb)
    /\ a0 = a
    /\ b0 = b
    /\ last = NoCall
    /\ used = 0
    /\ allPreMoves = initialPreMoves
    /\ allSolveMoves = initialSolveMoves
    /\ pc = mainStart

Init == Constructed(Standard, Standard)

\* a.ApplyWCAMoves(str)
CallApplyWCAMoves(str) ==
    /\ used + Len(Split(str)) <= MaxTokens
    /\ \E res \in {ApplyWCAMoves(a, str)} :
          /\ a' = res.s
          /\ last' = [NoCall EXCEPT !.op = "ApplyWCAMoves", !.str = str,
                                    !.err = res.err]
    /\ a0' = a
    /\ b0' = b
    /\ used' = used + Len(Split(str))
    /\ UNCHANGED b
    /\ GeneratorIdle

\* a.ApplyRubiskewbMoves(str)
CallApplyRubiskewbMoves(str) ==
    /\ used + Len(Split(str)) <= MaxTokens
    /\ \E res \in {ApplyRubiskewbMoves(a, str)} :
          /\ a' = res.s
          /\ last' = [NoCall EXCEPT !.op = "ApplyRubiskewbMoves", !.str = str,
                                    !.err = res.err]
    /\ a0' = a
    /\ b0' = b
    /\ used' = used + Len(Split(str))
    /\ UNCHANGED b
    /\ GeneratorIdle

\* after a.Apply...Moves(m): the same applier with createReverse(m)
CallApplyReverse ==
    /\ last.op \in {"ApplyWCAMoves", "ApplyRubiskewbMoves"}
    /\ ~last.isReverse
    /\ LET reverse == createReverse(last.str)
           res == IF last.op = "ApplyWCAMoves"
                  THEN ApplyWCAMoves(a, reverse)
                  ELSE ApplyRubiskewbMoves(a, reverse)
       IN /\ a' = res.s
          /\ last' = [last EXCEPT !.isReverse = TRUE, !.m = last.str,
                                  !.str = reverse, !.err = res.err]
    /\ UNCHANGED <<b, a0, b0, used>>
    /\ GeneratorIdle

(***************************************************************************)
(* Spec: the move engine and the reverse computer, on a.                   *)
(***************************************************************************)
Next ==
    \/ \E str \in MoveStrings(WCAInputTokens, MaxTokens - used) :
            CallApplyWCAMoves(str)
    \/ \E str \in MoveStrings(RubiskewbInputTokens, MaxTokens - used) :
            CallApplyRubiskewbMoves(str)
    \/ CallApplyReverse

Spec == Init /\ [][Next]_vars

(***************************************************************************)
(* The caller prepares a pair of puzzles: a is scrambled, b is a copy of a *)
(* or its own construction, and b is turned.                               *)
(***************************************************************************)
Prepared == [NoCall EXCEPT !.op = "Prepare"]

\* a.ApplyRubiskewbMoves(move), one token; the last unit of work is left to
\* a checker
ScrambleA(move) ==
    /\ used + 1 < MaxWork
    /\ a' = ApplyRubiskewbMoves(a, move).s
    /\ a0' = a'
    /\ b0' = b
    /\ last' = Prepared
    /\ used' = used + 1
    /\ UNCHANGED b
    /\ GeneratorIdle

\* b.ApplyWCAMoves(move)
TurnB(move) ==
    /\ used + 1 < MaxWork
    /\ b' = ApplyWCAMoves(b, move).s
    /\ a0' = a
    /\ b0' = b'
    /\ last' = Prepared
    /\ used' = used + 1
    /\ UNCHANGED a
    /\ GeneratorIdle

\* a.ApplyRubiskewbMoves(move) and b.ApplyRubiskewbMoves(move), the same
\* token for both
ScrambleBoth(move) ==
    /\ used + 1 < MaxWork
    /\ a' = ApplyRubiskewbMoves(a, move).s
    /\ b' = ApplyRubiskewbMoves(b, move).s
    /\ a0' = a'
    /\ b0' = b'
    /\ last' = Prepared
    /\ used' = used + 1
    /\ GeneratorIdle

\* b := a (a Skewb is a value: the assignment copies it)
Copy ==
    /\ b # a
    /\ b' = a
    /\ a0' = a
    /\ b0' = b'
    /\ last' = Prepared
    /\ UNCHANGED <<a, used>>
    /\ GeneratorIdle

\* the tokens the caller scrambles a with, and turns b with
\* (each of the eight face turns of the Rubiskewb notation, in one direction;
\* the nine axis rotations and two face turns of the WCA notation)
ScrambleMoves == {R, LittleRPrime, BPrime, LittleB, L, LittleLPrime, FPrime, LittleF}
TurnMoves == {X, XPrime, X2, Y, YPrime, Y2, Z, ZPrime, Z2, U, RPrime}

Prepare ==
    \/ \E move \in ScrambleMoves : ScrambleA(move)
    \/ \E move \in TurnMoves : TurnB(move)
    \/ Copy

\* a.CenterDown(color)
CallCenterDown(color) ==
    /\ used + 1 <= MaxWork
    /\ \E res \in {CenterDown(a, color)} :
          /\ a' = res.s
          /\ last' = [NoCall EXCEPT !.op = "CenterDown", !.color = color,
                                    !.err = res.err]
    /\ a0' = a
    /\ b0' = b
    /\ used' = used + 1
    /\ UNCHANGED b
    /\ GeneratorIdle

\* a.Equal(&b)
CallEqual ==
    /\ used + 1 <= MaxWork
    /\ \E res \in {Equal(a, b)} :
          /\ b' = res.other
          /\ last' = [NoCall EXCEPT !.op = "Equal", !.ret = res.ret]
    /\ a0' = a
    /\ b0' = b
    /\ used' = used + 1
    /\ UNCHANGED a
    /\ GeneratorIdle

\* a.ExactEqual(&b)
CallExactEqual ==
    /\ used + 1 <= MaxWork
    /\ \E res \in {ExactEqual(a, b)} :
          /\ b' = res.other
          /\ last' = [NoCall EXCEPT !.op = "ExactEqual", !.ret = res.ret]
    /\ a0' = a
    /\ b0' = b
    /\ used' = used + 1
    /\ UNCHANGED a
    /\ GeneratorIdle

\* a.FullMirror(&b)
CallFullMirror ==
    /\ used + 1 <= MaxWork
    /\ \E res \in {FullMirror(a, b)} :
          /\ b' = res.other
          /\ last' = [NoCall EXCEPT !.op = "FullMirror", !.ret = res.ret,
                                    !.dropped = res.dropped,
                                    !.droppedAt = res.droppedAt,
                                    !.trials = res.trials]
    /\ a0' = a
    /\ b0' = b
    /\ used' = used + 1
    /\ UNCHANGED a
    /\ GeneratorIdle

\* a.OneLayerMirror(&b, layerColor); after a panic a and b are as the
\* aborted call left them
CallOneLayerMirror(layerColor) ==
    /\ used + 1 <= MaxWork
    /\ \E res \in {OneLayerMirror(a, b, layerColor)} :
          /\ a' = res.s
          /\ b' = res.other
          /\ last' = [NoCall EXCEPT !.op = "OneLayerMirror",
                                    !.color = layerColor,
                                    !.ret = res.ret,
                                    !.dropped = res.dropped,
                                    !.droppedAt = res.droppedAt,
                                    !.trials = res.trials,
                                    !.panic = res.panic]
    /\ a0' = a
    /\ b0' = b
    /\ used' = used + 1
    /\ GeneratorIdle

(***************************************************************************)
(* EquivSpec: two puzzles and the equivalence checker.                     *)
(***************************************************************************)
EquivNext ==
    \/ Prepare
    \/ \E color \in Colors : CallCenterDown(color)
    \/ CallEqual
    \/ CallExactEqual

EquivInit ==
    \E pa \in {Standard, TwoTone} : \E pb \in {Standard, Foreign} : Constructed(pa, pb)

EquivSpec == EquivInit /\ [][EquivNext]_vars

(***************************************************************************)
(* MirrorSpec: two puzzles and the mirror checker.                         *)
(***************************************************************************)
\* the tokens the caller scrambles a, or a and b, with before FullMirror
MirrorScrambleMoves == {R, LittleF, BPrime}

\* b is turned by whole rotation strings, those FullMirror itself tries
MirrorPrepare ==
    \/ \E move \in MirrorScrambleMoves : ScrambleA(move)
    \/ \E move \in MirrorScrambleMoves : ScrambleBoth(move)
    \/ \E i \in 1..Len(fullMirrorRotations) : TurnB(fullMirrorRotations[i])
    \/ Copy

MirrorNext ==
    \/ MirrorPrepare
    \/ CallFullMirror

MirrorInit ==
    \E pb \in {Standard, Relabelled, Permuted} : Constructed(Standard, pb)

MirrorSpec == MirrorInit /\ [][MirrorNext]_vars

(***************************************************************************)
(* LayerSpec: two puzzles and the one-layer mirror checker.                *)
(***************************************************************************)
\* b is turned about the vertical axis, as OneLayerMirror itself turns it
LayerPrepare ==
    \/ \E move \in ScrambleMoves : ScrambleA(move)
    \/ \E i \in 1..Len(oneLayerMirrorRotations) : TurnB(oneLayerMirrorRotations[i])
    \/ Copy

LayerNext ==
    \/ LayerPrepare
    \/ \E layerColor \in Colors : CallOneLayerMirror(layerColor)

LayerInit == \E pb \in {Standard, Foreign} : Constructed(Standard, pb)

LayerSpec == LayerInit /\ [][LayerNext]_vars

(***************************************************************************)
(* RepeatSpec: one token applied to a again and again.                     *)
(***************************************************************************)
RotationMoves == {X, XPrime, X2, Y, YPrime, Y2, Z, ZPrime, Z2}

\* a.ApplyWCAMoves(move) or a.ApplyRubiskewbMoves(move), the first time
CallRotation(op, move) ==
    /\ last.op \in {"New", "Prepare"}
    /\ \E res \in {IF op = "ApplyWCAMoves" THEN ApplyWCAMoves(a, move)
                   ELSE ApplyRubiskewbMoves(a, move)} :
          /\ a' = res.s
          /\ last' = [NoCall EXCEPT !.op = op, !.str = move, !.err = res.err,
                                    !.times = 1]
    /\ a0' = a
    /\ b0' = b
    /\ UNCHANGED <<b, used>>
    /\ GeneratorIdle

\* the same call once more; a0 stays a before the first of the calls
CallRotationAgain ==
    /\ last.op \in {"ApplyWCAMoves", "ApplyRubiskewbMoves"}
    /\ last.times >= 1
    /\ last.times < MaxTimes
    /\ \E res \in {IF last.op = "ApplyWCAMoves" THEN ApplyWCAMoves(a, last.str)
                   ELSE ApplyRubiskewbMoves(a, last.str)} :
          /\ a' = res.s
          /\ last' = [last EXCEPT !.err = res.err, !.times = @ + 1]
    /\ UNCHANGED <<b, a0, b0, used>>
    /\ GeneratorIdle

\* a is scrambled first; one token of either notation, a rotation or a face
\* turn, is applied to it afterwards
RepeatNext ==
    \/ \E move \in ScrambleMoves : last.times = 0 /\ ScrambleA(move)
    \/ \E move \in WCAVocabulary : CallRotation("ApplyWCAMoves", move)
    \/ \E move \in RubiskewbVocabulary : CallRotation("ApplyRubiskewbMoves", move)
    \/ CallRotationAgain

RepeatInit == \E pa \in {Standard, TwoTone} : Constructed(pa, Standard)

RepeatSpec == RepeatInit /\ [][RepeatNext]_vars

(***************************************************************************)
(* GenSpec: main of algorithms/generate.go, up to its loop over the move   *)
(* counts.                                                                 *)
(***************************************************************************)
\* where main is after the candidate pc points at; solve is allSolveMoves
\* after that candidate
nextCandidate(solve) ==
    IF pc.move < Len(solveMoves)
    THEN [pc EXCEPT !.move = @ + 1]
    ELSE IF pc.solveMove < Len(solve[pc.i - 1])
    THEN [pc EXCEPT !.solveMove = @ + 1, !.move = 1]
    ELSE IF pc.i < MainIterations /\ pc.i < GenMoves /\ Len(solve[pc.i]) > 0
    THEN [pc EXCEPT !.i = @ + 1, !.solveMove = 1, !.move = 1]
    ELSE [pc EXCEPT !.at = "done"]

\* where main is after the pass of iteratorPreMoves pc points at
nextPreMove ==
    IF nextLoops(pc.loops) # <<>>
    THEN [pc EXCEPT !.loops = nextLoops(pc.loops)]
    ELSE IF pc.i < 3
    THEN [pc EXCEPT !.i = @ + 1, !.loops = [n \in 1..(pc.i + 1) |-> 1]]
    ELSE [pc EXCEPT !.at = "iteratorSolveMoves", !.i = 1, !.loops = <<>>]

\* one pass of the innermost loop of iteratorPreMoves("", 1, pc.i), the
\* passes of the three calls of main one after another
StepIteratorPreMoves ==
    /\ pc.at = "iteratorPreMoves"
    /\ allPreMoves' = appendPreMove(allPreMoves, preMoveAt(pc.loops, pc.i), pc.i)
    /\ pc' = nextPreMove
    /\ UNCHANGED <<a, b, a0, b0, last, used, allSolveMoves>>

\* one pass of the loop of iteratorSolveMoves(solveMove, i, i) over
\* solveMoves, for solveMove the pc.solveMove-th of allSolveMoves[i-1]
StepIteratorSolveMoves ==
    /\ pc.at = "iteratorSolveMoves"
    /\ \E solve \in {appendSolveMove(allSolveMoves, allPreMoves, nextMove(allSolveMoves[pc.i - 1][pc.solveMove], solveMoves[pc.move], pc.i), pc.i)} :
          /\ allSolveMoves' = solve
          /\ pc' = nextCandidate(solve)
    /\ UNCHANGED <<a, b, a0, b0, last, used, allPreMoves>>

GenNext ==
    \/ StepIteratorPreMoves
    \/ StepIteratorSolveMoves

GenInit == Constructed(Standard, Standard)

GenSpec == GenInit /\ [][GenNext]_vars

(***************************************************************************)
(* Properties of the move engine and the reverse computer (checked under   *)
(* Spec).                                                                  *)
(***************************************************************************)
ApplierCalls == {"ApplyWCAMoves", "ApplyRubiskewbMoves"}

\* the vocabulary of the notation an applier accepts
Vocabulary(op) ==
    IF op = "ApplyWCAMoves" THEN WCAVocabulary ELSE RubiskewbVocabulary

ValidSequence(op, str) ==
    \A i \in 1..Len(Split(str)) : Split(str)[i] \in Vocabulary(op)

Applied(op, s, str) ==
    IF op = "ApplyWCAMoves" THEN ApplyWCAMoves(s, str) ELSE ApplyRubiskewbMoves(s, str)

\* the position of the first token of str outside the vocabulary
FirstUnknown(op, str) ==
    CHOOSE k \in 1..Len(Split(str)) :
        /\ Split(str)[k] \notin Vocabulary(op)
        /\ \A j \in 1..(k - 1) : Split(str)[j] \in Vocabulary(op)

\* C1: the inverse law.  After a sequence m of valid tokens has been applied
\* to a and then Reverse(m) with the same applier, a is ExactEqual to the
\* state it had before m.
InverseLaw ==
    (last.isReverse /\ ValidSequence(last.op, last.m))
        => ExactEqual(a0, a).ret = equal

\* C1, its case: a face turn and a half rotation were applied and reversed
InverseLawWitness ==
    /\ last.isReverse
    /\ last.op = "ApplyRubiskewbMoves"
    /\ Split(last.m) = <<LittleFPrime, X2>>
    /\ Split(last.str) = <<X2, LittleF, <<>>>>

\* C2: apply until the first error.  When the k-th token of the string is
\* the first one outside the vocabulary, the applier returns the
\* unsupported-move error naming that token and a is exactly the result of
\* applying the first k-1 tokens.
ApplyUntilFirstError ==
    (last.op \in ApplierCalls /\ ~last.isReverse /\ ~ValidSequence(last.op, last.str))
        => LET tokens == Split(last.str)
               k == FirstUnknown(last.op, last.str)
           IN /\ last.err.kind = "ErrWCAMove"
              /\ last.err.token = tokens[k]
              /\ a = IF k = 1
                     THEN a0
                     ELSE Applied(last.op, a0, Join(SubSeq(tokens, 1, k - 1))).s

\* C2, its case: "R Q" leaves the effect of "R" alone
ApplyUntilFirstErrorWitness ==
    /\ last.op = "ApplyWCAMoves"
    /\ ~last.isReverse
    /\ last.str = <<"R", " ", "Q">>
    /\ last.err.token = <<"Q">>
    /\ a = ApplyWCAMoves(a0, R).s
    /\ a # a0

\* C3: the unsupported-move error names the offending token and restates
\* the legal tokens of the notation that was being applied.
ErrorRestatesVocabulary ==
    (last.op \in ApplierCalls /\ last.err # Nil)
        => /\ last.err.token \in {Split(last.str)[i] : i \in 1..Len(Split(last.str))}
           /\ last.err.token \notin Vocabulary(last.op)
           /\ {last.err.valid[i] : i \in 1..Len(last.err.valid)} = Vocabulary(last.op)

(***************************************************************************)
(* Properties of the equivalence checker (checked under EquivSpec).        *)
(***************************************************************************)
CenterColors(s) == {s[c] : c \in Centers}

\* s after k quarter turns y
RECURSIVE YTurns(_, _)
YTurns(s, k) == IF k = 0 THEN s ELSE YTurns(ApplyWCAMoves(s, Y).s, k - 1)

\* other after CenterDown has put the down color of s on its down center
Repositioned(s, other) == CenterDown(other, s.down).s

\* C4: Equal(a, b) returns true if and only if one of the four states
\* b, y(b), y(y(b)), y(y(y(b))), with b repositioned by CenterDown, is
\* ExactEqual to a.
EqualIsOneOfFourSpins ==
    last.op = "Equal"
        => (last.ret = equal
              <=> \E k \in 0..3 :
                      ExactEqual(a0, YTurns(Repositioned(a0, b0), k)).ret = equal)

\* C4, its case: a scrambled, and a match found only at the third quarter turn
EqualIsOneOfFourSpinsWitness ==
    /\ last.op = "Equal"
    /\ last.ret = equal
    /\ a0 # NewFrom(Standard)
    /\ \A k \in 0..2 : ExactEqual(a0, YTurns(Repositioned(a0, b0), k)).ret = notEqual
    /\ ExactEqual(a0, YTurns(Repositioned(a0, b0), 3)).ret = equal

\* C5: Equal(a, b) never changes a and does not restore b: on true b is left
\* ExactEqual to a, on false b is left as its repositioned state with three
\* quarter turns y applied.
EqualLeavesOtherTurned ==
    last.op = "Equal"
        => /\ a = a0
           /\ last.ret = equal => ExactEqual(a, b).ret = equal
           /\ last.ret = notEqual => b = YTurns(Repositioned(a0, b0), 3)

\* C5, its case: Equal returned false and b is not the b of before the call
EqualLeavesOtherTurnedWitness ==
    /\ last.op = "Equal"
    /\ last.ret = notEqual
    /\ CenterColors(a0) = CenterColors(b0)
    /\ b = YTurns(Repositioned(a0, b0), 3)
    /\ ExactEqual(b0, b).ret = notEqual

\* C6: when the down color of a is on no center of b, Equal(a, b) reports
\* the color-not-found error of CenterDown to its caller.
EqualReportsColorNotFound ==
    (last.op = "Equal" /\ a0.down \notin CenterColors(b0))
        => last.err.kind = ErrColor

\* C7: for a color c that a center holds, CenterDown(c) returns no error,
\* applies the one rotation that belongs to the center holding c (x2 for
\* up, x' for front, z for right, x for back, z' for left) or nothing when
\* c is down, and afterwards the down center holds c.
CenterDownBringsColorDown ==
    (last.op = "CenterDown" /\ last.color \in CenterColors(a0))
        => /\ last.err = Nil
           /\ a.down = last.color
           /\ \/ a0.up = last.color /\ a = ApplyWCAMoves(a0, X2).s
              \/ a0.front = last.color /\ a = ApplyWCAMoves(a0, XPrime).s
              \/ a0.right = last.color /\ a = ApplyWCAMoves(a0, Z).s
              \/ a0.back = last.color /\ a = ApplyWCAMoves(a0, X).s
              \/ a0.left = last.color /\ a = ApplyWCAMoves(a0, ZPrime).s
              \/ a0.down = last.color /\ a = a0

\* C7, its case: the color of the front center of a scrambled puzzle
CenterDownBringsColorDownWitness ==
    /\ last.op = "CenterDown"
    /\ a0.front = last.color
    /\ a0.front # "g"
    /\ a0.down # last.color
    /\ a.down = last.color

\* C8: for a color no center holds, CenterDown returns the color-not-found
\* error and leaves the 8 corners and 6 centers as they were.
CenterDownUnknownColor ==
    (last.op = "CenterDown" /\ last.color \notin CenterColors(a0))
        => /\ last.err.kind = ErrColor
           /\ last.err.color = last.color
           /\ \A c \in Corners \cup Centers : a[c] = a0[c]

\* C8, its case: a color of no center, asked of a scrambled puzzle
CenterDownUnknownColorWitness ==
    /\ last.op = "CenterDown"
    /\ last.color = "p"
    /\ a0 \notin {NewFrom(Standard), NewFrom(TwoTone)}
    /\ last.err.kind = ErrColor

\* C9: ExactEqual(a, b) returns true if and only if the 8 corner triples
\* agree position by position and the 6 centers agree; it changes neither.
ExactEqualIsSlotBySlot ==
    last.op = "ExactEqual"
        => /\ last.ret = equal
                <=> /\ \A c \in Corners : \A i \in 1..3 : a0[c][i] = b0[c][i]
                    /\ \A c \in Centers : a0[c] = b0[c]
           /\ a = a0
           /\ b = b0

\* C9, its case: b is a turned about the vertical axis, Equal to a but not
\* ExactEqual
ExactEqualIsSlotBySlotWitness ==
    /\ last.op = "ExactEqual"
    /\ last.ret = notEqual
    /\ a0 # NewFrom(Standard)
    /\ b0 = ApplyWCAMoves(a0, Y).s

(***************************************************************************)
(* Properties of the mirror checker (checked under MirrorSpec).            *)
(***************************************************************************)
SixColors(s) == Cardinality(CenterColors(s)) = 6

\* C10: for a with six distinct colors and b a copy of a with one of the
\* rotation strings of FullMirror applied, FullMirror(a, b) returns true.
FullMirrorRotationInvariance ==
    (/\ last.op = "FullMirror"
     /\ SixColors(a0)
     /\ \E i \in 1..Len(fullMirrorRotations) :
            b0 = ApplyWCAMoves(a0, fullMirrorRotations[i]).s)
        => last.ret = equal

\* C10, its case: a scrambled puzzle (no turn of the solved one) and its copy
\* turned by "x y"
FullMirrorRotationInvarianceWitness ==
    /\ last.op = "FullMirror"
    /\ getRelativeColors(a0) # getRelativeColors(NewFrom(Standard))
    /\ b0 = ApplyWCAMoves(a0, <<"x", " ", "y">>).s
    /\ last.ret = equal

\* the stickers of a puzzle: the three of every corner and the centers
Stickers == {<<c, i>> : c \in Corners, i \in 1..3} \cup {<<c, 0>> : c \in Centers}
StickerColor(s, p) == IF p[2] = 0 THEN s[p[1]] ELSE s[p[1]][p[2]]

\* other is s with its colors renamed one to one
IsRelabeling(s, other) ==
    LET pairs == {<<StickerColor(s, p), StickerColor(other, p)>> : p \in Stickers}
    IN /\ Cardinality({q[1] : q \in pairs}) = Cardinality(pairs)
       /\ Cardinality({q[2] : q \in pairs}) = Cardinality(pairs)

\* a puzzle that is no turn of a solved one
Scrambled(s) == getRelativeColors(s) # getRelativeColors(NewFrom(Standard))

\* C11: relabeling invariance of FullMirror.  For a with six distinct colors
\* and b built from a one-to-one renaming of those colors, with the same
\* valid moves applied to both (b is then a with its colors renamed),
\* FullMirror(a, b) returns true.
FullMirrorRelabelingInvariance ==
    (/\ last.op = "FullMirror"
     /\ SixColors(a0)
     /\ IsRelabeling(a0, b0))
        => last.ret = equal

\* C11, its case: a scrambled a and b, a with other colors
FullMirrorRelabelingInvarianceWitness ==
    /\ last.op = "FullMirror"
    /\ Scrambled(a0)
    /\ b0 # a0
    /\ IsRelabeling(a0, b0)
    /\ last.ret = equal

\* C12: FullMirror(a, b) leaves no net change: when it has returned, true or
\* false, b is ExactEqual to b before the call and a is as it was.
FullMirrorNoNetChange ==
    last.op = "FullMirror"
        => /\ ExactEqual(b0, b).ret = equal
           /\ a = a0

\* C12, its cases: a rotation matched and was undone; no rotation matched
FullMirrorNoNetChangeWitness ==
    /\ last.op = "FullMirror"
    /\ last.ret = equal
    /\ last.trials > 1
    /\ Scrambled(a0)
    /\ b = b0

\* C13: OneLayerMirror(a, b, layerColor) undoes every rotation that did not
\* match and leaves the one that matched applied: after true found at the
\* rotation r of y, y', y2, b is its CenterDown-repositioned state with r
\* applied; after true found before any rotation, and after false, b is its
\* CenterDown-repositioned state.
OneLayerMirrorLeavesMatchApplied ==
    (last.op = "OneLayerMirror" /\ ~last.panic)
        => LET sDown == CenterDown(a0, last.color).s
               otherDown == Repositioned(sDown, b0)
           IN IF last.ret = equal /\ last.trials > 0
              THEN b = ApplyWCAMoves(otherDown,
                                     oneLayerMirrorRotations[last.trials]).s
              ELSE b = otherDown

\* C14: spin invariance of OneLayerMirror.  For a with six distinct colors,
\* c one of them and b a copy of a with nothing, y, y' or y2 applied,
\* OneLayerMirror(a, b, c) returns true.
OneLayerMirrorSpinInvariance ==
    (/\ last.op = "OneLayerMirror"
     /\ SixColors(a0)
     /\ last.color \in CenterColors(a0)
     /\ \E k \in 0..3 : b0 = YTurns(a0, k))
        => /\ ~last.panic
           /\ last.ret = equal

\* C14, its case: a scrambled a, its copy turned by y, a layer color that is
\* not down, and a match that needed a rotation
OneLayerMirrorSpinInvarianceWitness ==
    /\ last.op = "OneLayerMirror"
    /\ Scrambled(a0)
    /\ b0 = YTurns(a0, 1)
    /\ last.color \in CenterColors(a0) \ {a0.down}
    /\ last.trials > 0
    /\ last.ret = equal

\* C15: no call of the core ends in a run-time panic.
NoCorePanic == ~last.panic

\* the inputs of a mirror checker on which CenterDown has nothing to report
ValidMirrorInput ==
    \/ last.op = "FullMirror"
    \/ /\ last.op = "OneLayerMirror"
       /\ last.color \in CenterColors(a0)
       /\ last.color \in CenterColors(b0)

\* C16: an error that a call of ApplyWCAMoves or CenterDown inside
\* OneLayerMirror or FullMirror returns is reported to the caller and ends
\* the trials; on valid inputs no such call returns an error.
MirrorErrorsPropagate ==
    last.op \in {"OneLayerMirror", "FullMirror"}
        => /\ last.dropped # Nil
                => /\ last.err = last.dropped
                   /\ last.trials = last.droppedAt
           /\ ValidMirrorInput => last.dropped = Nil

\* the number of quarter turns a rotation token is
QuarterTurns(move) == IF move \in {X2, Y2, Z2} THEN 2 ELSE 1

\* C17: the order-4 law.  From every state, a quarter rotation (x, y, z or
\* its prime) applied four times in a row, and a half rotation (x2, y2, z2)
\* applied twice, gives a state ExactEqual to the one before; with six
\* distinct colors no smaller positive number of applications does.
OrderFourLaw ==
    (/\ last.op \in ApplierCalls
     /\ last.times >= 1
     /\ last.str \in RotationMoves)
        => /\ last.times * QuarterTurns(last.str) = 4
                => ExactEqual(a0, a).ret = equal
           /\ (SixColors(a0) /\ last.times * QuarterTurns(last.str) < 4)
                => ExactEqual(a0, a).ret = notEqual

\* C17, its case: a scrambled a after y' four times
OrderFourLawWitness ==
    /\ last.op = "ApplyRubiskewbMoves"
    /\ last.str = YPrime
    /\ last.times = 4
    /\ Scrambled(a0)
    /\ a = a0

\* a token with its trailing ' taken off, or with ' put on unless it ends
\* in 2
InverseToken(move) ==
    IF move[Len(move)] = "'" THEN SubSeq(move, 1, Len(move) - 1)
    ELSE IF move[Len(move)] = "2" THEN move
    ELSE move \o <<"'">>

\* the tokens in reverse order, each one inverted
InverseTokens(tokens) ==
    [i \in 1..Len(tokens) |-> InverseToken(tokens[Len(tokens) + 1 - i])]

\* C18: Reverse(m), for m of n valid tokens, is exactly the n tokens of m in
\* reverse order, each inverted, and no other token: the applier m was
\* applied with accepts it without error.
ReverseIsExact ==
    (last.isReverse /\ ValidSequence(last.op, last.m))
        => /\ Split(last.str) = InverseTokens(Split(last.m))
           /\ last.err = Nil

\* the Rubiskewb token for the turn a WCA token names
RubiskewbName(move) ==
    IF move = U THEN B
    ELSE IF move = UPrime THEN BPrime
    ELSE IF move = R THEN LittleR
    ELSE IF move = RPrime THEN LittleRPrime
    ELSE IF move = B THEN LittleB
    ELSE IF move = BPrime THEN LittleBPrime
    ELSE IF move = L THEN LittleL
    ELSE IF move = LPrime THEN LittleLPrime
    ELSE move

RubiskewbNames(str) ==
    Join([i \in 1..Len(Split(str)) |-> RubiskewbName(Split(str)[i])])

\* C19: the two notations name the same transformations.  From every state,
\* a sequence of valid WCA tokens given to ApplyWCAMoves produces the state
\* that ApplyRubiskewbMoves produces from the same tokens with U, R, B, L
\* (and their primes) written B, r, b, l and the rotations written alike.
NotationsAgree ==
    (/\ last.op = "ApplyWCAMoves"
     /\ ~last.isReverse
     /\ ValidSequence(last.op, last.str))
        => /\ a = ApplyRubiskewbMoves(a0, RubiskewbNames(last.str)).s
           /\ ApplyRubiskewbMoves(a0, RubiskewbNames(last.str)).err = Nil

\* C19, its case: a face turn and a rotation, from a state that is not the
\* constructed one
NotationsAgreeWitness ==
    /\ last.op = "ApplyWCAMoves"
    /\ ~last.isReverse
    /\ Split(last.str) \in {<<U>>, <<RPrime>>, <<B>>, <<LPrime>>, <<Z2>>}
    /\ a0 # NewFrom(Standard)
    /\ a # a0

\* the centers, and the corner-triple positions, that hold color
CenterCount(s, color) == Cardinality({c \in Centers : s[c] = color})
CornerCount(s, color) ==
    Cardinality({p \in Corners \X (1..3) : s[p[1]][p[2]] = color})

ColorCounts(s, centers, corners) ==
    \A i \in 1..Len(Standard) :
        /\ CenterCount(s, Standard[i]) = centers
        /\ CornerCount(s, Standard[i]) = corners

\* C20 as stated: in the constructed state and in every state reached from
\* it by valid moves, each of the six colors is on exactly one center and on
\* exactly 3 corner-triple positions.
ColorCountThree == ColorCounts(a, 1, 3)

\* C20: in the constructed state and in every state reached from it by
\* valid moves of either notation, each of the six colors is on exactly one
\* center and on exactly 4 corner-triple positions (8 corners of 3 colors,
\* 6 colors).
ColorCountFour == ColorCounts(a, 1, 4)

\* C20, its case: a after two valid tokens of the Rubiskewb notation
ColorCountFourWitness ==
    /\ last.op = "ApplyRubiskewbMoves"
    /\ Split(last.str) = <<LittleLPrime, F>>
    /\ last.err = Nil
    /\ a # a0
    /\ ColorCounts(a, 1, 4)

\* the face-turn tokens of the notation an applier accepts
FaceTurnTokens(op) == Vocabulary(op) \ RotationMoves

\* a token that ends in '
IsPrimed(move) == move[Len(move)] = "'"

\* a triple shifted cyclically, one way or the other
Shifted(c, forward) ==
    IF forward THEN <<c[2], c[3], c[1]>> ELSE <<c[3], c[1], c[2]>>

\* the ways to name three different members of S as first, second, third
Threes(S) == {f \in [1..3 -> S] : f[1] # f[2] /\ f[1] # f[3] /\ f[2] # f[3]}

Poles(move) ==
    IF move[1] = "x" THEN {"right", "left"}
    ELSE IF move[1] = "y" THEN {"up", "down"}
    ELSE {"front", "back"}

\* the three cyclic orders of a triple
Turns(c) == {c, Shifted(c, TRUE), Shifted(c, FALSE)}

\* the center of s whose color center d of t holds now, and the corner of s
\* whose triple, in some cyclic order, corner d of t holds now
CenterFrom(s, t, d) == CHOOSE c \in Centers : s[c] = t[d]
CornerFrom(s, t, d) == CHOOSE c \in Corners : t[d] \in Turns(s[c])

\* slot d lies on a cycle of exactly n slots (n is 2 or 4), following From
OnCycle(From(_), d, n) ==
    /\ From(d) # d
    /\ (From(From(d)) = d) <=> (n = 2)
    /\ From(From(From(From(d)))) = d

\* the frame of one rotation token: the poles stay, the other centers and
\* the corners move in cycles of n slots, and the corner triples keep their
\* order exactly when keeps holds
RotationFrame(move, n, keeps) ==
    LET centerFrom(d) == CenterFrom(a0, a, d)
        cornerFrom(d) == CornerFrom(a0, a, d)
    IN /\ \A d \in Poles(move) : a[d] = a0[d]
       /\ \A d \in Centers \ Poles(move) : OnCycle(centerFrom, d, n)
       /\ \A d \in Corners :
             /\ OnCycle(cornerFrom, d, n)
             /\ (a[d] = a0[cornerFrom(d)]) <=> keeps

\* a single rotation token has just been applied to a puzzle of six colors
RotationApplied ==
    /\ last.op \in ApplierCalls
    /\ ~last.isReverse
    /\ last.times = 0
    /\ last.str \in RotationMoves
    /\ SixColors(a0)

\* C22 as stated: every axis rotation (half turns included) leaves its two
\* pole centers unchanged, moves the other four centers in one 4-cycle and
\* the eight corners in two 4-cycles; y, y', y2 keep the order of every
\* triple, x and z rotations shift every triple.
RotationFourCycles ==
    RotationApplied
        => RotationFrame(last.str, 4, last.str[1] = "y")

\* C22, amended: a quarter rotation (x, x', y, y', z, z') leaves its two pole
\* centers unchanged, moves the other four centers in one 4-cycle and the
\* eight corners in two 4-cycles, keeping the order of every triple for y, y'
\* and shifting every triple for x, x', z, z'; a half rotation (x2, y2, z2)
\* leaves its poles unchanged, swaps the other four centers in two pairs and
\* the eight corners in four pairs, and keeps the order of every triple.
RotationCyclesByTurn ==
    RotationApplied
        => RotationFrame(last.str, 4 \div QuarterTurns(last.str),
                         last.str[1] = "y" \/ QuarterTurns(last.str) = 2)

\* C22, its case: x2 on a scrambled puzzle swaps ufr with dbr, order kept
RotationCyclesByTurnWitness ==
    /\ RotationApplied
    /\ last.str = X2
    /\ Scrambled(a0)
    /\ a.ufr = a0.dbr
    /\ a.dbr = a0.ufr
    /\ a.front = a0.back

\* the orientation of s FullMirror tests in trial i; trial 0 is s as given
Orientation(s, i) ==
    IF i = 0 THEN s ELSE ApplyWCAMoves(s, fullMirrorRotations[i]).s

\* s after one rotation token
Rotated(s, move) == ApplyWCAMoves(s, move).s

\* C23: the orientations of b that FullMirror tests, b as given and b after
\* each rotation string of its list, are 24 orientations of which, for b of
\* six distinct colors, no two are ExactEqual; and no two of the states the
\* nine single rotations x, x', x2, y, y', y2, z, z', z2 give are ExactEqual.
FullMirrorOrientationsDistinct ==
    (last.op = "FullMirror" /\ SixColors(b0))
        => /\ Len(fullMirrorRotations) + 1 = 24
           /\ \E tested \in {[i \in 0..Len(fullMirrorRotations) |-> Orientation(b0, i)]} :
                 \A i, j \in DOMAIN tested :
                    i # j => ExactEqual(tested[i], tested[j]).ret = notEqual
           /\ \E single \in {[m \in RotationMoves |-> Rotated(b0, m)]} :
                 \A m, n \in RotationMoves :
                    m # n => ExactEqual(single[m], single[n]).ret = notEqual

\* C23, its case: FullMirror has gone through all its orientations of a
\* scrambled b and found no match
FullMirrorOrientationsDistinctWitness ==
    /\ last.op = "FullMirror"
    /\ SixColors(b0)
    /\ Scrambled(b0)
    /\ last.trials = Len(fullMirrorRotations)
    /\ last.ret = notEqual
    /\ Cardinality({Orientation(b0, i) : i \in 0..Len(fullMirrorRotations)}) = 24

\* the faces the three stickers of each corner slot lie on, in the order the
\* slot lists them
SlotFaces ==
    [ufr |-> <<"up", "front", "right">>, urb |-> <<"up", "right", "back">>,
     ulf |-> <<"up", "left", "front">>,  ubl |-> <<"up", "back", "left">>,
     drf |-> <<"down", "right", "front">>, dbr |-> <<"down", "back", "right">>,
     dfl |-> <<"down", "front", "left">>, dlb |-> <<"down", "left", "back">>]

\* every corner sticker has the color of the center of its face
Solved(s) == \A c \in Corners : \A i \in 1..3 : s[c][i] = s[SlotFaces[c][i]]

\* str is a sequence of rotation tokens
RotationSequence(str) ==
    \A i \in 1..Len(Split(str)) : Split(str)[i] \in RotationMoves

\* C24: rotations keep a solved puzzle solved.  The constructor's state is
\* solved, every corner sticker having the color of the center of the face it
\* lies on (ufr lists up, front, right; urb up, right, back; ulf up, left,
\* front; ubl up, back, left; drf down, right, front; dbr down, back, right;
\* dfl down, front, left; dlb down, left, back), so is each of its 24
\* orientations and each of them after one more axis rotation, and a
\* sequence of axis rotations applied to a solved state gives a solved state.
RotationsKeepSolved ==
    /\ last.op = "New"
          => /\ Solved(a)
             /\ \A i \in 0..Len(fullMirrorRotations) : \A move \in RotationMoves :
                   /\ Solved(Orientation(a, i))
                   /\ Solved(Rotated(Orientation(a, i), move))
    /\ (/\ last.op \in ApplierCalls
        /\ ~last.isReverse
        /\ RotationSequence(last.str)
        /\ Solved(a0))
           => Solved(a)

\* C24, its case: z' applied to a solved puzzle that an earlier rotation has
\* turned away from the constructor's orientation
RotationsKeepSolvedWitness ==
    /\ last.op \in ApplierCalls
    /\ ~last.isReverse
    /\ last.str = ZPrime
    /\ Solved(a0)
    /\ a0.up # NewFrom(Standard).up
    /\ SixColors(a0)
    /\ a.ufr # a0.ufr
    /\ a.up # a0.up
    /\ Solved(a)

\* the corner pieces of s, each one its triple up to cyclic order
Pieces(s) == {Turns(s[c]) : c \in Corners}

\* C25: corner pieces are never broken up or mirrored.  In every state
\* reached from the constructor's state of six distinct colors by moves of
\* either notation, the eight corner triples, each up to cyclic order, are
\* the eight triples the constructor made, each once, and the six centers hold
\* the six constructor colors, each once.
PiecesPreserved ==
    /\ Pieces(a) = Pieces(NewFrom(Standard))
    /\ Cardinality(Pieces(a)) = 8
    /\ \A c, d \in Corners : c # d => Turns(a[c]) # Turns(a[d])
    /\ CenterColors(a) = CenterColors(NewFrom(Standard))
    /\ \A c, d \in Centers : c # d => a[c] # a[d]

\* C25, its case: two valid face turns have moved and twisted corners and
\* moved centers
PiecesPreservedWitness ==
    /\ last.op = "ApplyRubiskewbMoves"
    /\ last.err = Nil
    /\ ~last.isReverse
    /\ last.str = LittleF \o <<" ">> \o RPrime
    /\ \E c \in Corners : \A d \in Corners : a[c] # NewFrom(Standard)[d]
    /\ \E c \in Corners : a[c] # a0[c] /\ a[c] \in Turns(a0[c])
    /\ \E c \in Centers : a[c] # a0[c]

\* C26: every face turn has order 3.  From every state, the same face-turn
\* token of either notation applied three times in a row gives a state
\* ExactEqual to the one before, and applied twice it gives the state its
\* primed counterpart (for a primed token, the unprimed one) gives applied
\* once; with six distinct colors one and two applications change the state.
FaceTurnOrderThree ==
    (/\ last.op \in ApplierCalls
     /\ last.times >= 1
     /\ last.str \in FaceTurnTokens(last.op))
        => /\ last.times = 3 => ExactEqual(a0, a).ret = equal
           /\ last.times = 2
                => a = Applied(last.op, a0, InverseToken(last.str)).s
           /\ (SixColors(a0) /\ last.times \in {1, 2})
                => ExactEqual(a0, a).ret = notEqual

\* C26, its case: a scrambled a after U' three times
FaceTurnOrderThreeWitness ==
    /\ last.op = "ApplyWCAMoves"
    /\ last.str = UPrime
    /\ last.times = 3
    /\ last.err = Nil
    /\ Scrambled(a0)
    /\ a = a0

\* C27: Equal is symmetric.  For a and b reached from constructed states of
\* the same six distinct colors, Equal(a, b) and Equal(b, a), each called on
\* fresh copies of the two, return the same value.
EqualIsSymmetric ==
    (/\ last.op = "Equal"
     /\ SixColors(a0)
     /\ CenterColors(a0) = CenterColors(b0))
        => last.ret = Equal(b0, a0).ret

\* C27, its case: a scrambled, b the same puzzle held with another center
\* down, so that either call has to reposition its argument
EqualIsSymmetricWitness ==
    /\ last.op = "Equal"
    /\ last.ret = equal
    /\ SixColors(a0)
    /\ CenterColors(a0) = CenterColors(b0)
    /\ Scrambled(a0)
    /\ a0.down # b0.down
    /\ Equal(b0, a0).ret = equal
    /\ Equal(b0, a0).other # a0

\* C28: applying the empty move sequence, the empty string, with
\* ApplyWCAMoves or ApplyRubiskewbMoves returns no error and leaves the state
\* unchanged.
EmptySequenceIsNoOp ==
    (/\ last.op \in ApplierCalls
     /\ ~last.isReverse
     /\ last.str = <<>>)
        => /\ last.err = Nil
           /\ a = a0

\* the sequences stored in allSolveMoves for the move counts 1 and up
StoredSolveMoves ==
    UNION {{allSolveMoves[n][k] : k \in 1..Len(allSolveMoves[n])} : n \in 1..9}

\* C29: the solve moves of the generator are deduplicated up to rotation.
\* After the enumeration for the move counts 1..n, no two different sequences
\* stored in allSolveMoves, applied to a solved puzzle with
\* ApplyRubiskewbMoves, give states that are Equal, and none gives a state
\* Equal to the solved one.
SolveMovesDeduplicated ==
    pc.at = "done"
        => \E stored \in {StoredSolveMoves} :
              \A p \in stored :
                 /\ solveMoveIsEqual(p, <<>>) = notEqual
                 /\ \A q \in stored : p # q => solveMoveIsEqual(p, q) = notEqual

====
